---- MODULE Spec2Model ----
(***************************************************************************)
(* TechNews Auto-Publisher (news_bot): the Run Orchestrator main.run() and *)
(* the stages it calls, as a state machine.  One action per step of run()  *)
(* at which the program talks to the outside (an HTTP request, a file).    *)
(* Every answer of the outside (HTTP status, error, file write result) is  *)
(* a nondeterministic choice.                                              *)
(***************************************************************************)
EXTENDS Integers, Sequences, FiniteSets, TLC

\* ---------------------------------------------------------------- bounds
\* number of runs of main.py over the life of one data/ directory
MaxRuns == 2
\* most listing pages the backend serves before the listing ends
MaxPages == 2
\* most records the backend serves over all the pages of one listing
MaxListing == 2
\* days the scheduler is followed for
MaxDays == 3
\* the day of the model: hours in a day, minutes in an hour
HoursPerDay == 2
MinutesPerHour == 2
\* most records the sources return beyond the filler records
MaxArticles == 3
\* most characters of a title beyond its run of letters
MaxTitleLen == 3
\* most sources in the list of the model
MaxSources == 2
\* most calls of get_jwt_token inside one process
MaxCalls == 3
\* configured NewsAPI topics, and configured feeds
MaxTopics == 2
MaxFeeds == 2

\* ------------------------------------------------------ program constants
\* generator.py: text[:80]
SlugMax == 80

\* the processes that may execute run(); the sequential specification uses one
Procs == {1, 2}
SeqProcs == {1}

\* ------------------------------------------------------------- slugify
\* Characters are one-character strings, a text is a sequence of them.
Space == {" "}
Separators == {" ", "_", "-"}
Lowercase == <<"a", "b", "c", "d", "e", "f", "g", "h", "i", "j", "k", "l", "m",
               "n", "o", "p", "q", "r", "s", "t", "u", "v", "w", "x", "y", "z">>
Uppercase == <<"A", "B", "C", "D", "E", "F", "G", "H", "I", "J", "K", "L", "M",
               "N", "O", "P", "Q", "R", "S", "T", "U", "V", "W", "X", "Y", "Z">>
Digits == <<"0", "1", "2", "3", "4", "5", "6", "7", "8", "9">>
Range(seq) == { seq[i] : i \in 1..Len(seq) }

UppercaseChars == Range(Uppercase)

\* \w
WordChars == Range(Lowercase) \cup Range(Uppercase) \cup Range(Digits) \cup {"_"}

\* str.lower(), character by character
LowerChar(c) ==
    IF c \in UppercaseChars
    THEN Lowercase[CHOOSE i \in 1..Len(Uppercase) : Uppercase[i] = c]
    ELSE c

lower(text) == [i \in 1..Len(text) |-> LowerChar(text[i])]

\* the positions of a text, in order
Positions(text) == [i \in 1..Len(text) |-> i]

\* the characters of a text at a sequence of positions
CharsAt(text, positions) == [k \in 1..Len(positions) |-> text[positions[k]]]

\* the text from its first character outside chars on
lstrip(text, chars) ==
    IF \A i \in 1..Len(text) : text[i] \in chars THEN <<>>
    ELSE SubSeq(text,
                CHOOSE i \in 1..Len(text) :
                    text[i] \notin chars /\ \A j \in 1..(i - 1) : text[j] \in chars,
                Len(text))

\* the text up to its last character outside chars
rstrip(text, chars) ==
    IF \A i \in 1..Len(text) : text[i] \in chars THEN <<>>
    ELSE SubSeq(text, 1,
                CHOOSE i \in 1..Len(text) :
                    text[i] \notin chars /\ \A j \in (i + 1)..Len(text) : text[j] \in chars)

strip(text, chars) == rstrip(lstrip(text, chars), chars)

\* re.sub(r"[^\w\s-]", "", text)
RemoveNonWord(text) ==
    SelectSeq(text, LAMBDA c : c \in WordChars \/ c \in Space \/ c = "-")

\* a text with every run of characters of chars replaced by one character:
\* the first of the run stays, as the replacement
CollapseRuns(text, chars, replacement) ==
    LET firsts == SelectSeq(Positions(text),
                            LAMBDA i : text[i] \notin chars \/ i = 1
                                       \/ text[i - 1] \notin chars)
    IN  [k \in 1..Len(firsts) |->
            IF text[firsts[k]] \in chars THEN replacement ELSE text[firsts[k]]]

\* re.sub(r"[\s_-]+", "-", text)
CollapseSeparators(text) == CollapseRuns(text, Separators, "-")

\* re.sub(r"^-+|-+$", "", text)
TrimHyphens(text) == strip(text, {"-"})

\* text[:n]
Truncate(text, n) == SubSeq(text, 1, IF Len(text) < n THEN Len(text) ELSE n)

slugify(text) ==
    Truncate(TrimHyphens(CollapseSeparators(RemoveNonWord(strip(lower(text), Space)))),
             SlugMax)

\* ------------------------------------------------- the outside's answers
\* titles the generative-text service returns (all non-empty)
Titles == { <<"A", " ", "b">>, <<"!">> }
Slugs == { slugify(t) : t \in Titles }

\* how the request of call_groq ends: an answer, no key configured (no request is
\* sent), a timeout, a non-success status, any other error
CallOutcomes == {"ok", "no_key", "timeout", "http_error", "error"}

\* data.get(field) of a field the JSON object does not have (or has as null)
Absent == <<"<absent>">>
FieldTexts == {Absent, <<>>, <<"text">>}

\* the JSON documents a reply can hold: text that is not JSON, a JSON value that
\* is not an object, an object with any of the three fields absent or empty
NoDoc == [shape |-> "none", title |-> Absent, content |-> Absent, excerpt |-> Absent]
Docs ==
    [shape : {"malformed", "array"}, title : {Absent}, content : {Absent},
     excerpt : {Absent}]
    \cup [shape : {"object"}, title : {Absent, <<>>} \cup Titles, content : FieldTexts,
          excerpt : FieldTexts]

\* a reply is a sequence of parts: prose, a ```json fence, a ``` fence, a document
Part(kind) == [kind |-> kind, doc |-> NoDoc]
DocPart(doc) == [kind |-> "doc", doc |-> doc]
Wrapped(doc) ==
    { <<DocPart(doc)>>,
      <<Part("fence_json"), DocPart(doc), Part("fence")>>,
      <<Part("fence"), DocPart(doc), Part("fence")>>,
      <<Part("fence_json"), DocPart(doc)>>,
      <<Part("prose"), Part("fence_json"), DocPart(doc), Part("fence")>> }
Replies == {<<>>} \cup UNION { Wrapped(doc) : doc \in Docs }

\* what the generative-text service can come to for one call of call_groq
ModelResponses ==
    [call : {"ok"}, raw : Replies] \cup [call : CallOutcomes \ {"ok"}, raw : {<<>>}]

\* the answers a run of main.py is checked against: one of each kind
ObjectDoc(title) ==
    [shape |-> "object", title |-> title, content |-> <<"text">>, excerpt |-> <<"text">>]
RunDocs ==
    { [NoDoc EXCEPT !.shape = "malformed"], [NoDoc EXCEPT !.shape = "array"],
      ObjectDoc(<<>>) } \cup { ObjectDoc(t) : t \in Titles }
RunResponses ==
    { [call |-> "timeout", raw |-> <<>>] }
    \cup { [call |-> "ok", raw |-> <<DocPart(doc)>>] : doc \in RunDocs }

LoginOutcomes == {"200_token", "200_no_token", "401", "other_status",
                  "connection_error", "timeout"}
CreateOutcomes == {"201", "201_bad_body", "401", "409", "400", "other_status",
                   "connection_error", "timeout", "other_error"}
IndexNowOutcomes == {"200", "202", "403", "422", "other_status", "timeout", "error"}
PingOutcomes == {"200", "other_status", "timeout", "error"}

\* Path.write_text: the file is replaced; or open() fails and the file is as it
\* was; or the file is truncated by open() and the write fails part-way
WriteOutcomes == {"ok", "denied", "partial"}

NoToken == "none"
Token == "jwt"
NoneUrl == <<>>
\* the keys uuid4 yields, in the order they are generated: each one is new
KeyNames == <<"k1", "k2", "k3", "k4", "k5">>
Keys == { KeyNames[i] : i \in 1..Len(KeyNames) }

\* a listing record without a "slug" field
NoSlug == <<"<no slug>">>
ListingRecords == Slugs \cup {NoSlug}

\* pagination.totalPages; -1 stands for a response without the field
TotalPagesAbsent == 0 - 1
PagePosts == UNION { [1..n -> ListingRecords] : n \in 0..MaxListing }
PageResponses ==
    [kind : {"non200", "error"}, posts : {<<>>}, totalPages : {TotalPagesAbsent}]
    \cup [kind : {"ok"}, posts : PagePosts,
          totalPages : {TotalPagesAbsent} \cup (0..MaxPages)]

\* ------------------------------------------------------------------ state
VARIABLES
    ledgerFile,     \* data/published.json: [kind, slugs]
    backupFiles,    \* output/<slug>.json per slug: "absent", "complete", "partial"
    sitemapFile,    \* output/sitemap.xml: [kind, entries]
    keyFile,        \* data/indexnow_key.txt: "absent", "empty" or a key
    runs,           \* runs started so far
    keysGenerated,  \* keys uuid4 has generated so far
    submitted,      \* slugs sent to the creation endpoint so far, over all runs
    everInLedger,   \* slugs the ledger file has ever held
    raced,          \* slugs two runs alive at the same time have both sent for creation
    pc,             \* per process: where run() stands
    status,         \* per process: how the last run ended
    published,      \* run(): published
    articles,       \* run(): articles, "none" before the fetch, then "empty" or "some"
    result,         \* run(): result, [ok, title, slug]
    cachedToken,    \* publisher._cached_token
    publishedUrl,   \* run(): published_url
    saveSlugs,      \* save_published_slug(): slugs
    page,           \* fetch_all_slugs(): page
    fetched,        \* fetch_all_slugs(): slugs
    notified,       \* submit_to_google(): results
    eff,            \* per process: requests sent and files written in this run
    outcome,        \* per process: the answers this run got
    trace,          \* per process: the stages invoked in this run, in order
    ledger0,        \* per process: the ledger file when the run started
    backup0,        \* per process: the backup files when the run started
    sitemap0,       \* per process: the sitemap file when the run started
    key0            \* per process: the key file when the run started

\* scheduler.run_daily
VARIABLES
    now,            \* the UTC clock, in seconds since the start of day 0
    today,          \* run_daily(): today, the date of the last poll
    last_run_date,  \* run_daily(): last_run_date
    schedPc,        \* where run_daily() stands: "poll", "run_once", "sleep"
    dayLog,         \* per date: invocations and polls of run_daily() that read it
    invokedAt       \* the clock reading of the poll that last called run_once()

\* fetch_all_slugs on its own, against a backend whose listing need not end
VARIABLES
    lsPage,         \* fetch_all_slugs(): page
    lsResp,         \* the response to the last request
    lsPc            \* "request" inside the loop, "returned" after it

\* one function of fetcher.py or generator.py applied to an argument
VARIABLES
    argument,       \* the argument the first application was given
    previous,       \* the argument of the last application
    value,          \* the value of the last application
    applied         \* the functions applied so far, in order

schedVars == <<now, today, last_run_date, schedPc, dayLog, invokedAt>>
listingVars == <<lsPage, lsResp, lsPc>>
callVars == <<argument, previous, value, applied>>

persistent == <<ledgerFile, backupFiles, sitemapFile, keyFile>>
history == <<runs, keysGenerated, submitted, everInLedger, raced>>
locals == <<published, articles, result, cachedToken, publishedUrl, saveSlugs,
            page, fetched, notified>>
observed == <<eff, outcome, trace, ledger0, backup0,
                   sitemap0, key0>>
\* what a run of main.py leaves alone
outsideRun == <<schedVars, listingVars, callVars>>

runVars == <<persistent, history, pc, status, locals, observed>>
\* what run_daily() leaves alone: main.py is another process
outsideScheduler == <<runVars, listingVars, callVars>>

\* what fetch_all_slugs leaves alone
outsideListing == <<runVars, schedVars, callVars>>

\* what the application of a function leaves alone
outsideCall == <<runVars, schedVars, listingVars>>

vars == <<runVars, schedVars, listingVars, callVars>>

NoResult == [ok |-> FALSE, title |-> <<>>, slug |-> <<>>]
NoNotified == [indexnow |-> FALSE, google_ping |-> FALSE, bing_ping |-> FALSE]
NoEff == [generate |-> 0, login |-> 0, create |-> 0, backupWrite |-> 0, ledgerWrite |-> 0,
          sitemapWrite |-> 0, indexnow |-> 0, google_ping |-> 0, bing_ping |-> 0]
NoOutcome == [login |-> "none", create |-> "none", backup |-> "none",
              listing |-> "none", served |-> <<>>,
              sitemap |-> "none", submit |-> "none", key |-> "none"]

LedgerAbsent == [kind |-> "absent", slugs |-> {}]
LedgerMalformed == [kind |-> "malformed", slugs |-> {}]
SitemapAbsent == [kind |-> "absent", entries |-> <<>>]

\* the files and the processes before the first run of main.py
RunInit ==
    /\ ledgerFile \in {LedgerAbsent, LedgerMalformed}
    /\ backupFiles = [s \in Slugs |-> "absent"]
    /\ sitemapFile = SitemapAbsent
    /\ keyFile = "absent"
    /\ runs = 0
    /\ keysGenerated = 0
    /\ submitted = {}
    /\ everInLedger = {}
    /\ raced = {}
    /\ pc = [p \in Procs |-> "idle"]
    /\ status = [p \in Procs |-> "none"]
    /\ published = [p \in Procs |-> {}]
    /\ articles = [p \in Procs |-> "none"]
    /\ result = [p \in Procs |-> NoResult]
    /\ cachedToken = [p \in Procs |-> NoToken]
    /\ publishedUrl = [p \in Procs |-> NoneUrl]
    /\ saveSlugs = [p \in Procs |-> {}]
    /\ page = [p \in Procs |-> 1]
    /\ fetched = [p \in Procs |-> <<>>]
    /\ notified = [p \in Procs |-> NoNotified]
    /\ eff = [p \in Procs |-> NoEff]
    /\ outcome = [p \in Procs |-> NoOutcome]
    /\ trace = [p \in Procs |-> <<>>]
    /\ ledger0 = [p \in Procs |-> ledgerFile]
    /\ backup0 = [p \in Procs |-> backupFiles]
    /\ sitemap0 = [p \in Procs |-> sitemapFile]
    /\ key0 = [p \in Procs |-> keyFile]

\* ------------------------------------------------- days and the UTC clock
\* the dates the clock of the model goes through
Days == 0..(MaxDays - 1)
MinuteSeconds == 60
DaySeconds == HoursPerDay * MinutesPerHour * MinuteSeconds
Horizon == MaxDays * DaySeconds

\* datetime: now.date(), now.hour, now.minute
Date(t) == t \div DaySeconds
Hour(t) == (t % DaySeconds) \div (MinutesPerHour * MinuteSeconds)
Minute(t) == ((t % DaySeconds) \div MinuteSeconds) % MinutesPerHour

\* last_run_date = None
NoDate == 0 - 1
NoTime == 0 - 1
NoDayLog == [invoked |-> 0, windowPolls |-> 0, latePolls |-> 0]

\* run_daily() is not running
SchedulerIdle ==
    /\ now = 0
    /\ today = NoDate
    /\ last_run_date = NoDate
    /\ schedPc = "idle"
    /\ dayLog = [d \in Days |-> NoDayLog]
    /\ invokedAt = NoTime

NoResponse == [kind |-> "none", posts |-> <<>>, totalPages |-> TotalPagesAbsent]

\* fetch_all_slugs is not running on its own
ListingIdle ==
    /\ lsPage = 1
    /\ lsResp = NoResponse
    /\ lsPc = "idle"

\* no function is being applied on its own
CallIdle ==
    /\ argument = <<>>
    /\ previous = <<>>
    /\ value = <<>>
    /\ applied = <<>>

\* main.py is not running and data/ is empty
RunIdle == RunInit /\ ledgerFile = LedgerAbsent

Init == RunInit /\ SchedulerIdle /\ ListingIdle /\ CallIdle

\* the run of process p ends with classification st
EndRun(p, st) ==
    /\ pc' = [pc EXCEPT ![p] = "ended"]
    /\ status' = [status EXCEPT ![p] = st]

Goto(p, where) ==
    /\ pc' = [pc EXCEPT ![p] = where]
    /\ UNCHANGED status

Invoke(p, stage) == trace' = [trace EXCEPT ![p] = Append(@, stage)]

\* ------------------------------------------------------------ main.py
\* json.loads raises on a malformed file; a missing file reads as the empty set
LedgerReadable(file) == file.kind # "malformed"

\* load_published_slugs that reads every ledger as empty
load_published_slugs_Empty(file) == {}

load_published_slugs(file) == IF file.kind = "valid" THEN file.slugs ELSE {}

\* run(), lines 50-59: a fresh process starts and loads the ledger
StartRunWithin(p, most) ==
    /\ pc[p] \in {"idle", "ended"}
    /\ runs < most
    /\ runs' = runs + 1
    /\ articles' = [articles EXCEPT ![p] = "none"]
    /\ result' = [result EXCEPT ![p] = NoResult]
    /\ cachedToken' = [cachedToken EXCEPT ![p] = NoToken]
    /\ publishedUrl' = [publishedUrl EXCEPT ![p] = NoneUrl]
    /\ saveSlugs' = [saveSlugs EXCEPT ![p] = {}]
    /\ page' = [page EXCEPT ![p] = 1]
    /\ fetched' = [fetched EXCEPT ![p] = <<>>]
    /\ notified' = [notified EXCEPT ![p] = NoNotified]
    /\ eff' = [eff EXCEPT ![p] = NoEff]
    /\ outcome' = [outcome EXCEPT ![p] = NoOutcome]
    /\ trace' = [trace EXCEPT ![p] = <<>>]
    /\ ledger0' = [ledger0 EXCEPT ![p] = ledgerFile]
    /\ backup0' = [backup0 EXCEPT ![p] = backupFiles]
    /\ sitemap0' = [sitemap0 EXCEPT ![p] = sitemapFile]
    /\ key0' = [key0 EXCEPT ![p] = keyFile]
    /\ IF LedgerReadable(ledgerFile)
       THEN /\ published' = [published EXCEPT ![p] = load_published_slugs(ledgerFile)]
            /\ pc' = [pc EXCEPT ![p] = "fetch"]
            /\ status' = [status EXCEPT ![p] = "running"]
       ELSE /\ published' = [published EXCEPT ![p] = {}]
            /\ pc' = [pc EXCEPT ![p] = "ended"]
            /\ status' = [status EXCEPT ![p] = "crashed"]
    /\ UNCHANGED <<persistent, keysGenerated, submitted, everInLedger, raced>>
    /\ UNCHANGED outsideRun

StartRun(p) == StartRunWithin(p, MaxRuns)

\* what fetch_news returns: the empty list or a list with records
FetchOutcomes == {"empty", "some"}

\* run() without the test for an empty article list
NoArticles_Never(fetchedArticles) == FALSE

\* run(), line 64: if not articles
NoArticles(fetchedArticles) == fetchedArticles = "empty"

\* run(), lines 63-67
Fetch(p) ==
    /\ pc[p] = "fetch"
    /\ \E n \in FetchOutcomes :
        /\ articles' = [articles EXCEPT ![p] = n]
        /\ IF NoArticles(n) THEN EndRun(p, "no_articles") ELSE Goto(p, "generate")
    /\ Invoke(p, "fetch")
    /\ UNCHANGED <<persistent, history, published, result, cachedToken, publishedUrl,
                   saveSlugs, page, fetched, notified, eff, outcome, ledger0, backup0,
                   sitemap0, key0>>
    /\ UNCHANGED outsideRun

\* call_groq, lines 74-127: message.content of the answer, None for every failure
NoReply == <<>>
call_groq(resp) == IF resp.call = "ok" THEN resp.raw ELSE NoReply

\* generate_article, lines 148-151: the three re.sub of the code fences
StripLeading(raw, kind) ==
    IF raw # <<>> /\ raw[1].kind = kind THEN SubSeq(raw, 2, Len(raw)) ELSE raw
StripTrailing(raw, kind) ==
    IF raw # <<>> /\ raw[Len(raw)].kind = kind THEN SubSeq(raw, 1, Len(raw) - 1) ELSE raw
StripFences(raw) ==
    StripTrailing(StripLeading(StripLeading(raw, "fence_json"), "fence"), "fence")

\* json.loads raises JSONDecodeError unless the text is one JSON document
ParsesAsJson(raw) ==
    /\ Len(raw) = 1
    /\ raw[1].kind = "doc"
    /\ raw[1].doc.shape # "malformed"

\* generate_article, lines 153-158: data, NoDoc where None is returned
json_loads(raw) == IF ParsesAsJson(raw) THEN raw[1].doc ELSE NoDoc

\* not data.get(field)
FieldMissing(text) == text = Absent \/ text = <<>>

\* generate_article, lines 142-158: data after the call, the fences and json.loads
ParsedReply(resp) ==
    IF call_groq(resp) = NoReply THEN NoDoc ELSE json_loads(StripFences(call_groq(resp)))

\* generate_article, line 162: data.get on a JSON value that is not an object
\* raises AttributeError, which nothing in generate_article or run() catches
generate_article_Raises(resp) == ParsedReply(resp).shape = "array"

\* generator.generate_article: the post, or no result
generate_article(resp) ==
    LET data == ParsedReply(resp)
    IN  IF /\ data.shape = "object"
           /\ ~FieldMissing(data.title)
           /\ ~FieldMissing(data.content)
           /\ ~FieldMissing(data.excerpt)
        THEN [ok |-> TRUE, title |-> data.title, slug |-> slugify(data.title)]
        ELSE NoResult

\* run(), lines 71-74
Generate(p) ==
    /\ pc[p] = "generate"
    /\ \E resp \in RunResponses :
        /\ result' = [result EXCEPT ![p] = generate_article(resp)]
        /\ eff' = [eff EXCEPT ![p].generate = @ + 1]
        /\ CASE generate_article_Raises(resp) -> EndRun(p, "crashed")
             [] ~generate_article(resp).ok -> EndRun(p, "generation_failed")
             [] OTHER -> Goto(p, "check")
    /\ Invoke(p, "synthesize")
    /\ UNCHANGED <<persistent, history, published, articles, cachedToken, publishedUrl,
                   saveSlugs, page, fetched, notified, outcome, ledger0, backup0,
                   sitemap0, key0>>
    /\ UNCHANGED outsideRun

\* run() without the ledger test
SlugAlreadyPublished_Never(slug, publishedSet) == FALSE

\* run(), line 77: if slug in published
SlugAlreadyPublished(slug, publishedSet) == slug \in publishedSet

\* run(), lines 76-79
CheckLedger(p) ==
    /\ pc[p] = "check"
    /\ IF SlugAlreadyPublished(result[p].slug, published[p])
       THEN EndRun(p, "already_published")
       ELSE Goto(p, "login")
    /\ Invoke(p, "check")
    /\ UNCHANGED <<persistent, history, locals, eff, outcome, ledger0, backup0,
                   sitemap0, key0>>
    /\ UNCHANGED outsideRun

\* ------------------------------------------------------------ publisher.py
\* get_jwt_token, lines 49-75: the token, or None for every other answer
get_jwt_token(loginOutcome) == IF loginOutcome = "200_token" THEN Token ELSE NoToken

\* meta["canonical_url"], as generate_article built it
Canonical(slug) == <<"https://saurabhjha.co.in", "/blog/">> \o slug

\* publish_article without the test of the token
TokenMissing_Never(token) == FALSE

\* publish_article, line 87: if not token
TokenMissing(token) == token = NoToken

\* publish_article that takes a slug conflict for a created post
PublishResult_Conflict(createOutcome, canonical) ==
    IF createOutcome \in {"201", "409"} THEN canonical ELSE NoneUrl

\* publish_article that returns no URL for a post it created and backed up
PublishResult_NoUrl(createOutcome, canonical) == NoneUrl

\* publish_article, lines 111-143: the value returned after the creation call;
\* on 201 resp.json() is read first, an unreadable body raises into `except`
PublishResult(createOutcome, canonical) ==
    IF createOutcome = "201" THEN canonical ELSE NoneUrl

\* a file after Path.write_text(new) ended as w; cut is what a part-way write leaves
WriteFile(old, new, cut, w) ==
    CASE w = "ok" -> new
      [] w = "denied" -> old
      [] OTHER -> cut

\* publish_article, lines 86-89 (and run(), lines 84-86): authenticate
Login(p) ==
    /\ pc[p] = "login"
    /\ Invoke(p, "publish")
    /\ IF cachedToken[p] # NoToken
       THEN /\ Goto(p, "post")
            /\ UNCHANGED <<cachedToken, eff, outcome>>
       ELSE \E o \in LoginOutcomes :
            /\ eff' = [eff EXCEPT ![p].login = @ + 1]
            /\ outcome' = [outcome EXCEPT ![p].login = o]
            /\ cachedToken' = [cachedToken EXCEPT ![p] = get_jwt_token(o)]
            /\ IF TokenMissing(get_jwt_token(o))
               THEN EndRun(p, "publish_failed")
               ELSE Goto(p, "post")
    /\ UNCHANGED <<persistent, history, published, articles, result, publishedUrl,
                   saveSlugs, page, fetched, notified, ledger0, backup0,
                   sitemap0, key0>>
    /\ UNCHANGED outsideRun

\* another process is inside a run that has sent this slug to the creation endpoint
SentByLiveRun(p, slug) ==
    \E q \in Procs \ {p} :
        /\ pc[q] \notin {"idle", "ended"}
        /\ eff[q].create > 0
        /\ result[q].slug = slug

\* publish_article, lines 91-143 with _save_local_backup (and run(), lines 84-86)
Post(p) ==
    /\ pc[p] = "post"
    /\ \E o \in CreateOutcomes, w \in WriteOutcomes :
        LET slug == result[p].slug
            url == PublishResult(o, Canonical(slug))
            backedUp == o = "201"
        IN  /\ submitted' = submitted \cup {slug}
            /\ raced' = IF SentByLiveRun(p, slug) THEN raced \cup {slug} ELSE raced
            /\ eff' = [eff EXCEPT ![p].create = @ + 1,
                                  ![p].backupWrite =
                                      IF backedUp /\ w = "ok" THEN @ + 1 ELSE @]
            /\ outcome' = [outcome EXCEPT ![p].create = o,
                                          ![p].backup = IF backedUp THEN w ELSE "none"]
            /\ backupFiles' =
                   IF backedUp
                   THEN [backupFiles EXCEPT ![slug] = WriteFile(@, "complete", "partial", w)]
                   ELSE backupFiles
            /\ publishedUrl' = [publishedUrl EXCEPT ![p] = url]
            /\ IF url = NoneUrl
               THEN EndRun(p, "publish_failed")
               ELSE Goto(p, "save_load")
    /\ UNCHANGED <<ledgerFile, sitemapFile, keyFile, runs, keysGenerated, everInLedger,
                   published, articles, result, cachedToken, saveSlugs, page, fetched, notified,
                   trace, ledger0, backup0,
                   sitemap0, key0>>
    /\ UNCHANGED outsideRun

\* save_published_slug that writes back what it read
AddSlug_Forget(slugs, slug) == slugs

\* save_published_slug, line 46
AddSlug(slugs, slug) == slugs \cup {slug}

\* save_published_slug, lines 43-46: read the ledger again and add the slug
SaveLoad(p) ==
    /\ pc[p] = "save_load"
    /\ IF LedgerReadable(ledgerFile)
       THEN /\ saveSlugs' = [saveSlugs EXCEPT ![p] =
                                AddSlug(load_published_slugs(ledgerFile), result[p].slug)]
            /\ Goto(p, "save_write")
       ELSE /\ UNCHANGED saveSlugs
            /\ EndRun(p, "crashed")
    /\ UNCHANGED <<persistent, history, published, articles, result, cachedToken,
                   publishedUrl, page, fetched, notified, observed>>
    /\ UNCHANGED outsideRun

\* save_published_slug, line 47: write the ledger; a failed write raises out of run()
SaveWrite(p) ==
    /\ pc[p] = "save_write"
    /\ \E w \in WriteOutcomes :
        /\ ledgerFile' = WriteFile(ledgerFile,
                                   [kind |-> "valid", slugs |-> saveSlugs[p]],
                                   LedgerMalformed, w)
        /\ everInLedger' = IF w = "ok" THEN everInLedger \cup saveSlugs[p]
                           ELSE everInLedger
        /\ eff' = [eff EXCEPT ![p].ledgerWrite = IF w = "ok" THEN @ + 1 ELSE @]
        /\ IF w = "ok" THEN Goto(p, "sitemap_fetch") ELSE EndRun(p, "crashed")
    /\ UNCHANGED <<backupFiles, sitemapFile, keyFile, runs, keysGenerated, submitted,
                   raced, locals,
                   outcome, trace, ledger0, backup0,
                   sitemap0, key0>>
    /\ UNCHANGED outsideRun

\* ------------------------------------- publisher.get_jwt_token, call after call
\* the tokens the backend issues, in the order of the logins it accepts
IssuedTokens == <<"jwt", "jwt2", "jwt3", "jwt4", "jwt5">>

\* get_jwt_token, lines 31-32: if _cached_token
TokenCached(cache) == cache # NoToken

\* get_jwt_token, lines 49-75: the token of the answer, None when there is none
LoginToken(loginOutcome, issued) == IF loginOutcome = "200_token" THEN issued ELSE NoToken

\* get_jwt_token that never stores the token
CacheAfterLogin_Never(cache, token) == cache

\* get_jwt_token, lines 51-52: _cached_token = token, only when there is a token
CacheAfterLogin(cache, token) == IF token # NoToken THEN token ELSE cache

\* what repeated calls of get_jwt_token leave alone
outsideToken == <<persistent, history, pc, status, published, articles, result,
                  publishedUrl, saveSlugs, page, fetched, notified, observed,
                  schedVars, listingVars, argument, previous>>

\* the login requests sent so far
LoginsSent(calls) == Len(SelectSeq(calls, LAMBDA c : c.request))

\* one call of get_jwt_token in process 1; applied lists the calls
CallGetJwtToken ==
    /\ Len(applied) < MaxCalls
    /\ IF TokenCached(cachedToken[1])
       THEN /\ value' = cachedToken[1]
            /\ applied' = Append(applied, [request |-> FALSE, answer |-> "none",
                                           returned |-> cachedToken[1]])
            /\ UNCHANGED cachedToken
       ELSE \E o \in LoginOutcomes :
            LET token == LoginToken(o, IssuedTokens[LoginsSent(applied) + 1])
            IN  /\ cachedToken' = [cachedToken EXCEPT ![1] = CacheAfterLogin(@, token)]
                /\ value' = token
                /\ applied' = Append(applied, [request |-> TRUE, answer |-> o,
                                               returned |-> token])
    /\ UNCHANGED outsideToken

TokenInit ==
    /\ RunIdle /\ SchedulerIdle /\ ListingIdle
    /\ argument = <<>>
    /\ previous = <<>>
    /\ value = NoToken
    /\ applied = <<>>

TokenNext == CallGetJwtToken

TokenSpec == TokenInit /\ [][TokenNext]_vars

\* ------------------------------------------------------------ sitemap.py
\* fetch_all_slugs, lines 44-48: the records appended from one page; post["slug"]
\* raises on a record without the field and the records before it stay appended
RECURSIVE AppendedRecords(_)
AppendedRecords(posts) ==
    IF posts = <<>> \/ Head(posts) = NoSlug THEN <<>>
    ELSE <<Head(posts)>> \o AppendedRecords(Tail(posts))

\* pagination.get("totalPages", 1)
TotalPages(resp) == IF resp.totalPages = TotalPagesAbsent THEN 1 ELSE resp.totalPages

\* fetch_all_slugs that does not look at pagination.totalPages
LastPage_IgnoresTotalPages(resp, pageNo) ==
    \/ resp.kind # "ok"
    \/ resp.posts = <<>>
    \/ AppendedRecords(resp.posts) # resp.posts

\* fetch_all_slugs, lines 35-57: whether the page loop ends after this response
LastPage(resp, pageNo) ==
    \/ resp.kind # "ok"
    \/ resp.posts = <<>>
    \/ AppendedRecords(resp.posts) # resp.posts
    \/ pageNo >= TotalPages(resp)

\* fetch_all_slugs that forgets the records it holds when a request fails
AfterPage_DropOnError(slugs, resp) ==
    IF resp.kind = "ok" THEN slugs \o AppendedRecords(resp.posts) ELSE <<>>

\* fetch_all_slugs, lines 35-48: the list after the response to one request;
\* a non-200 status and an exception leave it as it is
AfterPage(slugs, resp) ==
    IF resp.kind = "ok" THEN slugs \o AppendedRecords(resp.posts) ELSE slugs

\* fetch_all_slugs, one turn of the page loop (the first turn enters generate_sitemap)
FetchPage(p) ==
    /\ pc[p] = "sitemap_fetch"
    /\ \E resp \in PageResponses :
        /\ ~LastPage(resp, page[p]) => page[p] < MaxPages
        /\ Len(fetched[p]) + Len(resp.posts) <= MaxListing
        /\ fetched' = [fetched EXCEPT ![p] = AfterPage(@, resp)]
        /\ outcome' = [outcome EXCEPT ![p].listing = resp.kind,
                                      ![p].served = @ \o resp.posts]
        /\ IF LastPage(resp, page[p])
           THEN /\ Goto(p, "sitemap_write")
                /\ UNCHANGED page
           ELSE /\ page' = [page EXCEPT ![p] = @ + 1]
                /\ UNCHANGED <<pc, status>>
    /\ trace' = [trace EXCEPT ![p] =
                     IF @[Len(@)] # "sitemap" THEN Append(@, "sitemap") ELSE @]
    /\ UNCHANGED <<persistent, history, published, articles, result, cachedToken,
                   publishedUrl, saveSlugs, notified, eff, ledger0, backup0,
                   sitemap0, key0>>
    /\ UNCHANGED outsideRun

\* generate_sitemap, lines 75-76: forced insertion of the new slug;
\* `if new_slug` is false for None and for the empty string
InjectNewSlug(slugs, new_slug) ==
    IF new_slug # <<>> /\ ~(\E i \in 1..Len(slugs) : slugs[i] = new_slug)
    THEN <<new_slug>> \o slugs
    ELSE slugs

HomeEntry == [kind |-> "home", slug |-> <<>>]

\* generate_sitemap, lines 79-96: the <url> elements of the document, in order
SitemapEntries(slugs, new_slug) ==
    <<HomeEntry>> \o
    [i \in 1..Len(InjectNewSlug(slugs, new_slug)) |->
        [kind |-> "post", slug |-> InjectNewSlug(slugs, new_slug)[i]]]

\* generate_sitemap, lines 75-103: fetch_all_slugs has returned (its page counter
\* and what is remembered of its requests are gone); build the document and write it; a failed write raises out of
\* generate_sitemap and out of run()
WriteSitemap(p) ==
    /\ pc[p] = "sitemap_write"
    /\ \E w \in WriteOutcomes :
        /\ sitemapFile' = WriteFile(sitemapFile,
                                    [kind |-> "complete",
                                     entries |-> SitemapEntries(fetched[p], result[p].slug)],
                                    [kind |-> "partial", entries |-> <<>>], w)
        /\ eff' = [eff EXCEPT ![p].sitemapWrite = IF w = "ok" THEN @ + 1 ELSE @]
        /\ outcome' = [outcome EXCEPT ![p].sitemap = w,
                                      ![p].listing = "none",
                                      ![p].served = <<>>]
        /\ IF w = "ok" THEN Goto(p, "indexnow") ELSE EndRun(p, "crashed")
    /\ page' = [page EXCEPT ![p] = 1]
    /\ UNCHANGED <<ledgerFile, backupFiles, keyFile, history, published, articles,
                   result, cachedToken, publishedUrl, saveSlugs, fetched, notified,
                   trace, ledger0, backup0,
                   sitemap0, key0>>
    /\ UNCHANGED outsideRun

\* fetch_all_slugs on its own.  The loop has no bound on the number of requests,
\* so the page number is followed exactly up to PageCap; PageCap stands for
\* itself and for every page number after it, and a declared totalPages above
\* PageCap for one above the page requested.
PageCap == MaxPages + 1
DeclaredPages == {TotalPagesAbsent} \cup (0..(PageCap + 1))
ListingResponses ==
    [kind : {"non200", "error"}, posts : {<<>>}, totalPages : {TotalPagesAbsent}]
    \cup [kind : {"ok"}, posts : PagePosts, totalPages : DeclaredPages]

\* fetch_all_slugs, line 53: page += 1
NextPageNo(n) == IF n < PageCap THEN n + 1 ELSE n

\* fetch_all_slugs, lines 28-57: one request of the page loop and what follows it
ListPage ==
    /\ lsPc = "request"
    /\ \E resp \in ListingResponses :
        /\ lsResp' = resp
        /\ IF LastPage(resp, lsPage)
           THEN /\ lsPc' = "returned"
                /\ UNCHANGED lsPage
           ELSE /\ lsPage' = NextPageNo(lsPage)
                /\ UNCHANGED lsPc
    /\ UNCHANGED outsideListing

\* fetch_all_slugs, lines 25-26
ListingInit ==
    /\ RunIdle /\ SchedulerIdle /\ CallIdle
    /\ lsPage = 1
    /\ lsResp = NoResponse
    /\ lsPc = "request"

ListingNext == ListPage

\* the process goes on running: the loop takes its next turn
ListingSpec == ListingInit /\ [][ListingNext]_vars /\ WF_vars(ListingNext)

\* ------------------------------------------------------------ indexer.py
\* get_or_create_indexnow_key that never finds a stored key
KeyStored_Never(file) == FALSE

\* get_or_create_indexnow_key, lines 43-46: the stored key is returned as it is
KeyStored(file) == file \in Keys

\* what reading and writing the key file can come to in get_or_create_indexnow_key:
\* read_text (when the file exists) succeeds or raises, then write_text (when no
\* key is stored) ends as one of WriteOutcomes
KeyAccessOutcomes(file) ==
    (IF file = "absent" THEN {} ELSE {[read |-> "error", write |-> "none"]})
    \cup (IF KeyStored(file)
          THEN {[read |-> "ok", write |-> "none"]}
          ELSE [read : {"ok"}, write : WriteOutcomes])

\* get_or_create_indexnow_key, line 49: a new key is generated
KeyGenerated(access) == access.write # "none"

\* get_or_create_indexnow_key raises: read_text fails, or write_text fails
KeyRaises(access) == access.read = "error" \/ access.write \in {"denied", "partial"}

\* the key file after get_or_create_indexnow_key
KeyFileAfter(file, newKey, access) ==
    IF KeyGenerated(access) THEN WriteFile(file, newKey, "empty", access.write) ELSE file

\* submit_indexnow, lines 112-138
IndexNowSucceeded(o) == o \in {"200", "202"}

\* ping_google_sitemap lines 161-174, ping_bing_sitemap lines 193-202
PingSucceeded(o) == o = "200"

\* submit_to_google enters; submit_indexnow, lines 84-138: the key is fetched
\* outside the try block (a failure there raises out of submit_to_google and
\* out of run()), the request is sent inside it
SubmitIndexNow(p) ==
    /\ pc[p] = "indexnow"
    /\ Invoke(p, "index")
    /\ keysGenerated < Len(KeyNames)
    /\ \E access \in KeyAccessOutcomes(keyFile) :
        /\ keyFile' = KeyFileAfter(keyFile, KeyNames[keysGenerated + 1], access)
        /\ keysGenerated' = IF KeyGenerated(access) THEN keysGenerated + 1
                            ELSE keysGenerated
        /\ IF KeyRaises(access)
           THEN /\ EndRun(p, "crashed")
                /\ UNCHANGED <<eff, notified, outcome>>
           ELSE \E o \in IndexNowOutcomes :
                /\ outcome' = [outcome EXCEPT ![p].key = keyFile']
                /\ eff' = [eff EXCEPT ![p].indexnow = @ + 1]
                /\ notified' = [notified EXCEPT ![p].indexnow = IndexNowSucceeded(o)]
                /\ Goto(p, "google_ping")
    /\ UNCHANGED <<ledgerFile, backupFiles, sitemapFile, runs, submitted, everInLedger, raced,
                   published, articles, result, cachedToken, publishedUrl, saveSlugs,
                   page, fetched, ledger0, backup0,
                   sitemap0, key0>>
    /\ UNCHANGED outsideRun

\* submit_to_google, line 216: ping_google_sitemap
PingGoogle(p) ==
    /\ pc[p] = "google_ping"
    /\ \E o \in PingOutcomes :
        notified' = [notified EXCEPT ![p].google_ping = PingSucceeded(o)]
    /\ eff' = [eff EXCEPT ![p].google_ping = @ + 1]
    /\ Goto(p, "bing_ping")
    /\ UNCHANGED <<persistent, history, published, articles, result, cachedToken,
                   publishedUrl, saveSlugs, page, fetched, outcome, trace,
                   ledger0, backup0,
                   sitemap0, key0>>
    /\ UNCHANGED outsideRun

\* submit_to_google, line 228: success_count > 0
AnySucceeded(results) ==
    results.indexnow \/ results.google_ping \/ results.bing_ping

\* submit_to_google, lines 217-228: ping_bing_sitemap and the summary;
\* then run(), lines 104-106
PingBing(p) ==
    /\ pc[p] = "bing_ping"
    /\ \E o \in PingOutcomes :
        /\ notified' = [notified EXCEPT ![p].bing_ping = PingSucceeded(o)]
        /\ outcome' = [outcome EXCEPT ![p].submit =
               IF AnySucceeded([notified[p] EXCEPT !.bing_ping = PingSucceeded(o)])
               THEN "true" ELSE "false"]
    /\ eff' = [eff EXCEPT ![p].bing_ping = @ + 1]
    /\ EndRun(p, "completed")
    /\ UNCHANGED <<persistent, history, published, articles, result, cachedToken,
                   publishedUrl, saveSlugs, page, fetched, trace, ledger0, backup0,
                   sitemap0, key0>>
    /\ UNCHANGED outsideRun

\* ------------------------------------------------------------ fetcher.py
\* fetcher.py: key = ...[:60]
TitleKeyMax == 60
\* fetcher.py: all_articles[:20]
BatchMax == 20

\* deduplicate, line 126: the words the pattern removes
StopWords == {<<"t", "h", "e">>, <<"a">>, <<"a", "n">>, <<"i", "s">>,
              <<"i", "n">>, <<"o", "f">>, <<"f", "o", "r">>, <<"t", "o">>,
              <<"a", "n", "d">>, <<"o", "r">>, <<"o", "n">>, <<"a", "t">>,
              <<"w", "i", "t", "h">>}

StopWordLengths == { Len(w) : w \in StopWords }

\* the pattern \b(the|a|...)\b matches at the position of character i: a stop
\* word lies over it with no word character on either side
InStopWord(text, i) ==
    \E n \in StopWordLengths :
        \E first \in (i - n + 1)..i :
            /\ first >= 1
            /\ first = 1 \/ text[first - 1] \notin WordChars
            /\ first + n - 1 <= Len(text)
            /\ first + n > Len(text) \/ text[first + n] \notin WordChars
            /\ SubSeq(text, first, first + n - 1) \in StopWords

\* re.sub(r"\b(the|a|...)\b", "", key): a stop word goes when it is a whole word
RemoveStopWords(text) ==
    CharsAt(text, SelectSeq(Positions(text), LAMBDA i : ~InStopWord(text, i)))

\* re.sub(r"\s+", " ", key)
CollapseWhitespace(text) == CollapseRuns(text, Space, " ")

\* deduplicate, lines 123-127: the key of a title
title_key(title) ==
    strip(CollapseWhitespace(RemoveStopWords(
              Truncate(strip(lower(title), Space), TitleKeyMax))), Space)

\* deduplicate, lines 121-131: the loop, seen being seen_titles
RECURSIVE deduplicate_from(_, _)
deduplicate_from(arts, seen) ==
    IF arts = <<>> THEN <<>>
    ELSE IF title_key(Head(arts).title) \notin seen
         THEN <<Head(arts)>>
              \o deduplicate_from(Tail(arts), seen \cup {title_key(Head(arts).title)})
         ELSE deduplicate_from(Tail(arts), seen)

\* deduplicate that lets every record through
deduplicate_KeepAll(arts) == arts

deduplicate(arts) == deduplicate_from(arts, {})

\* filter_relevant, lines 138-145
keywords == {<<"a", "i">>,
             <<"a", "r", "t", "i", "f", "i", "c", "i", "a", "l", " ", "i", "n", "t", "e", "l", "l", "i", "g", "e", "n", "c", "e">>,
             <<"m", "a", "c", "h", "i", "n", "e", " ", "l", "e", "a", "r", "n", "i", "n", "g">>,
             <<"d", "e", "e", "p", " ", "l", "e", "a", "r", "n", "i", "n", "g">>,
             <<"r", "o", "b", "o", "t">>,
             <<"a", "u", "t", "o", "m", "a", "t", "i", "o", "n">>,
             <<"t", "e", "c", "h">>,
             <<"t", "e", "c", "h", "n", "o", "l", "o", "g", "y">>,
             <<"s", "c", "i", "e", "n", "c", "e">>,
             <<"s", "o", "f", "t", "w", "a", "r", "e">>,
             <<"h", "a", "r", "d", "w", "a", "r", "e">>,
             <<"c", "l", "o", "u", "d">>, <<"d", "a", "t", "a">>,
             <<"a", "l", "g", "o", "r", "i", "t", "h", "m">>,
             <<"n", "e", "u", "r", "a", "l">>, <<"g", "p", "t">>,
             <<"l", "l", "m">>, <<"c", "h", "i", "p">>,
             <<"s", "e", "m", "i", "c", "o", "n", "d", "u", "c", "t", "o", "r">>,
             <<"q", "u", "a", "n", "t", "u", "m">>,
             <<"c", "y", "b", "e", "r", "s", "e", "c", "u", "r", "i", "t", "y">>,
             <<"s", "p", "a", "c", "e">>, <<"b", "i", "o", "t", "e", "c", "h">>,
             <<"s", "t", "a", "r", "t", "u", "p">>,
             <<"i", "n", "n", "o", "v", "a", "t", "i", "o", "n">>,
             <<"r", "e", "s", "e", "a", "r", "c", "h">>,
             <<"c", "o", "m", "p", "u", "t", "i", "n", "g">>,
             <<"m", "o", "d", "e", "l">>, <<"o", "p", "e", "n", "a", "i">>,
             <<"g", "o", "o", "g", "l", "e">>,
             <<"m", "i", "c", "r", "o", "s", "o", "f", "t">>,
             <<"m", "e", "t", "a">>, <<"n", "v", "i", "d", "i", "a">>,
             <<"a", "p", "p", "l", "e">>, <<"t", "e", "s", "l", "a">>}

\* kw in text
IsSubstring(kw, text) ==
    \E i \in 0..(Len(text) - Len(kw)) : SubSeq(text, i + 1, i + Len(kw)) = kw

\* filter_relevant, lines 149-150
IsRelevant(art) ==
    LET text == lower(art.title \o <<" ">> \o art.summary)
    IN  \E kw \in keywords : IsSubstring(kw, text)

\* filter_relevant that looks at the title alone
filter_relevant_TitleOnly(arts) ==
    SelectSeq(arts, LAMBDA art : \E kw \in keywords : IsSubstring(kw, lower(art.title)))

filter_relevant(arts) == SelectSeq(arts, IsRelevant)

\* the characters of a timestamp in the order of their code points
CodePoints == <<"+", "-">> \o Digits \o <<":", "T", "Z">>
CodePoint(c) == CHOOSE i \in 1..Len(CodePoints) : CodePoints[i] = c

\* a < b on str
RECURSIVE StrLess(_, _)
StrLess(a, b) ==
    IF b = <<>> THEN FALSE
    ELSE IF a = <<>> THEN TRUE
    ELSE IF Head(a) = Head(b) THEN StrLess(Tail(a), Tail(b))
    ELSE CodePoint(Head(a)) < CodePoint(Head(b))

\* list.sort(key=published, reverse=True) is stable: a record goes behind the
\* records before it that are not older
RECURSIVE InsertNewestFirst(_, _)
InsertNewestFirst(art, sorted) ==
    IF sorted = <<>> THEN <<art>>
    ELSE IF StrLess(Head(sorted).published, art.published) THEN <<art>> \o sorted
    ELSE <<Head(sorted)>> \o InsertNewestFirst(art, Tail(sorted))

\* fetch_news without the sort
SortNewestFirst_Unsorted(arts) == arts

\* fetch_news, line 174
RECURSIVE SortNewestFirst(_)
SortNewestFirst(arts) ==
    IF arts = <<>> THEN <<>>
    ELSE InsertNewestFirst(arts[Len(arts)],
                           SortNewestFirst(SubSeq(arts, 1, Len(arts) - 1)))

\* fetch_news, lines 164-177, of the records the two sources returned
fetch_news(all_articles) ==
    Truncate(SortNewestFirst(filter_relevant(deduplicate(all_articles))), BatchMax)

\* n times the character c
Pad(c, n) == [i \in 1..n |-> c]

Article(title, summary, timestamp) ==
    [title |-> title, summary |-> summary, published |-> timestamp]

\* records the sources return: titles that differ in case and in a stop word,
\* or after the 60th character only; a term across title and summary, in the
\* summary, in the title, or nowhere; timestamps empty, older and newer
Articles ==
    { Article(<<"A", " ", "d", "e", "e", "p">>,
              <<"l", "e", "a", "r", "n", "i", "n", "g">>, <<>>),
      Article(<<"D", "E", "E", "P">>, <<"g", "p", "t">>, <<"1">>),
      Article(Pad("x", TitleKeyMax - 1) \o <<"y", "a", "i">>, <<"s">>, <<"2">>),
      Article(Pad("x", TitleKeyMax - 1) \o <<"y", "b">>, <<"s">>, <<"1">>) }

\* n relevant records with n different keys and one timestamp
Filler(n) ==
    [i \in 1..n |-> Article(<<"a", "i", " ">> \o Pad("z", i), <<"s">>, <<"1", "2">>)]

\* what NewsAPI and the feeds return together: few records, or enough for the cap
RawLists ==
    { Filler(n) \o tail :
        n \in {0, BatchMax - 1},
        tail \in UNION { [1..k -> Articles] : k \in 0..MaxArticles } }

ApplyDeduplicate ==
    /\ applied = <<>>
    /\ previous' = value
    /\ value' = deduplicate(value)
    /\ applied' = <<"deduplicate">>
    /\ UNCHANGED <<argument, outsideCall>>

ApplyFilterRelevant ==
    /\ applied = <<>>
    /\ previous' = value
    /\ value' = filter_relevant(value)
    /\ applied' = <<"filter_relevant">>
    /\ UNCHANGED <<argument, outsideCall>>

ApplyFetchNews ==
    /\ applied = <<>>
    /\ previous' = value
    /\ value' = fetch_news(value)
    /\ applied' = <<"fetch_news">>
    /\ UNCHANGED <<argument, outsideCall>>

FetcherInit ==
    /\ RunIdle /\ SchedulerIdle /\ ListingIdle
    /\ argument \in RawLists
    /\ previous = argument
    /\ value = argument
    /\ applied = <<>>

FetcherNext == ApplyDeduplicate \/ ApplyFilterRelevant \/ ApplyFetchNews

FetcherSpec == FetcherInit /\ [][FetcherNext]_vars

\* ------------------------------------ fetcher.py: the requests of the sources
\* CONFIG["newsapi"]["topics"] and CONFIG["rss_feeds"], in configured order
Topics == [i \in 1..MaxTopics |-> <<"topic", i>>]
Feeds == [i \in 1..MaxFeeds |-> <<"feed", i>>]

\* how many records an answer holds
ItemCounts == {0, 2}

\* what one request of fetch_from_newsapi comes to: an answer with status "ok"
\* and its records; an answer with another status; requests.get or resp.json()
\* raising; an answer whose second record lacks "url" or "source", which raises
\* after the first record was appended
TopicOutcomes ==
    [kind : {"ok"}, kept : ItemCounts]
    \cup [kind : {"status_error", "error"}, kept : {0}]
    \cup [kind : {"bad_record"}, kept : {1}]

\* what one feedparser.parse of fetch_from_rss comes to: entries (none for a
\* feed that cannot be fetched), or an exception while the entries are read
FeedOutcomes ==
    [kind : {"ok"}, kept : ItemCounts]
    \cup [kind : {"error"}, kept : {0}]
    \cup [kind : {"bad_record"}, kept : {1}]

\* the records one request appends to `articles`
RecordsOf(source, o) == [i \in 1..o.kept |-> <<source, i>>]

\* a fetcher whose list is lost when a request fails
Collect_DropOnError(collected, source, o) ==
    IF o.kind \in {"error", "status_error"} THEN <<>> ELSE collected \o RecordsOf(source, o)

\* articles.append(...) for each record read; `continue` and `except` leave the
\* list as it is
Collect(collected, source, o) == collected \o RecordsOf(source, o)

\* fetch_from_newsapi, lines 19-21: "YOUR_" in api_key
KeyConfigured(config) == config.keyConfigured

\* the requests sent so far to sources of one kind
RequestsTo(kind) == SelectSeq(applied, LAMBDA r : r.source[1] = kind)

\* fetch_from_newsapi has returned: no topic is left, or the key is not configured
NewsApiReturned ==
    ~KeyConfigured(argument) \/ Len(RequestsTo("topic")) = MaxTopics

\* fetch_from_rss has returned
RssReturned == Len(RequestsTo("feed")) = MaxFeeds

\* fetch_from_newsapi, lines 26-61: one turn of `for topic in cfg["topics"]`
RequestTopic ==
    /\ KeyConfigured(argument)
    /\ Len(RequestsTo("topic")) < MaxTopics
    /\ \E o \in TopicOutcomes :
        LET topic == Topics[Len(RequestsTo("topic")) + 1]
        IN  /\ value' = Collect(value, topic, o)
            /\ applied' = Append(applied, [source |-> topic, kind |-> o.kind,
                                           kept |-> o.kept])
    /\ UNCHANGED <<argument, previous, outsideCall>>

\* fetch_from_rss, lines 73-111: one turn of `for feed_url in feeds`
RequestFeed ==
    /\ NewsApiReturned
    /\ Len(RequestsTo("feed")) < MaxFeeds
    /\ \E o \in FeedOutcomes :
        LET feed == Feeds[Len(RequestsTo("feed")) + 1]
        IN  /\ value' = Collect(value, feed, o)
            /\ applied' = Append(applied, [source |-> feed, kind |-> o.kind,
                                           kept |-> o.kept])
    /\ UNCHANGED <<argument, previous, outsideCall>>

\* fetch_news, lines 159-164: the key is configured or not, nothing is collected
AggregatorInit ==
    /\ RunIdle /\ SchedulerIdle /\ ListingIdle
    /\ argument \in [keyConfigured : BOOLEAN]
    /\ previous = <<>>
    /\ value = <<>>
    /\ applied = <<>>

AggregatorNext == RequestTopic \/ RequestFeed

AggregatorSpec == AggregatorInit /\ [][AggregatorNext]_vars

\* ------------------------------------------------------------ generator.py
\* the characters of a title: a letter, whitespace, the separators, punctuation
TitleChars == {"A", " ", "-", "_", "!"}

\* titles of the generative-text service: short ones, and ones that come to the
\* 80-character cap of the slug
SlugTitles ==
    { Pad("a", n) \o rest :
        n \in {0, SlugMax - 2, SlugMax - 1},
        rest \in UNION { [1..k -> TitleChars] : k \in 0..MaxTitleLen } }

\* slugify applied to a title, and again to its own result
ApplySlugify ==
    /\ Len(applied) < 2
    /\ previous' = value
    /\ value' = slugify(value)
    /\ applied' = Append(applied, "slugify")
    /\ UNCHANGED <<argument, outsideCall>>

SlugifyInit ==
    /\ RunIdle /\ SchedulerIdle /\ ListingIdle
    /\ argument \in SlugTitles
    /\ previous = argument
    /\ value = argument
    /\ applied = <<>>

SlugifyNext == ApplySlugify

SlugifySpec == SlugifyInit /\ [][SlugifyNext]_vars

\* generate_article applied to one answer of the generative-text service; applied
\* lists the calls of call_groq it made
ApplyGenerateArticle ==
    /\ applied = <<>>
    /\ value' = [raised |-> generate_article_Raises(argument),
                 result |-> generate_article(argument)]
    /\ applied' = Append(applied, "call_groq")
    /\ UNCHANGED <<argument, previous, outsideCall>>

SynthesisInit ==
    /\ RunIdle /\ SchedulerIdle /\ ListingIdle
    /\ argument \in ModelResponses
    /\ previous = <<>>
    /\ value = [raised |-> FALSE, result |-> NoResult]
    /\ applied = <<>>

SynthesisNext == ApplyGenerateArticle

SynthesisSpec == SynthesisInit /\ [][SynthesisNext]_vars

\* generate_article, lines 167-186: the Sources section. A source is modelled by
\* its URL; "" is a source or a record whose URL is empty
SourceUrls == {"u1", "u2", ""}
\* data.get("sources", []): the list of the model, <<>> when the field is absent
SourceLists == UNION { [1..n -> SourceUrls] : n \in 0..MaxSources }

\* articles[:8]
SourcesCap == 8
\* the URLs of the fetched records, in fetch order
FetchedUrls == <<"u1", "", "f3", "f4", "f5", "f6", "f7", "f8", "f9">>
FetchedLists == { SubSeq(FetchedUrls, 1, n) : n \in 0..(SourcesCap + 1) }

\* generate_article, line 168: if cfg_article["include_sources"] and sources
HasSources(sources) == sources # <<>>

\* generate_article, lines 170-174: the loop over the fetched records, from the
\* i-th record on; seen is the set of URLs the list holds
RECURSIVE AppendFetched(_, _, _, _)
AppendFetched(sources, seen, arts, i) ==
    IF i > Len(arts)
    THEN sources
    ELSE IF arts[i] # "" /\ arts[i] \notin seen
         THEN AppendFetched(Append(sources, arts[i]), seen \cup {arts[i]}, arts, i + 1)
         ELSE AppendFetched(sources, seen, arts, i + 1)

\* generate_article, lines 176-180: the items of the section, for s in sources
\* if s.get("url")
SourceItems(sources) == SelectSeq(sources, LAMBDA url : url # "")

\* generate_article, lines 167-186: whether a section is appended, and its URLs
SourcesSection(sources, arts) ==
    IF HasSources(sources)
    THEN [present |-> TRUE,
          urls |-> SourceItems(AppendFetched(sources, Range(sources),
                                             Truncate(arts, SourcesCap), 1))]
    ELSE [present |-> FALSE, urls |-> <<>>]

\* the Sources block applied to a source list of the model and the fetched records
ApplySourcesSection ==
    /\ applied = <<>>
    /\ value' = SourcesSection(argument.sources, argument.articles)
    /\ applied' = Append(applied, "sources")
    /\ UNCHANGED <<argument, previous, outsideCall>>

SourcesInit ==
    /\ RunIdle /\ SchedulerIdle /\ ListingIdle
    /\ argument \in [sources : SourceLists, articles : FetchedLists]
    /\ previous = <<>>
    /\ value = [present |-> FALSE, urls |-> <<>>]
    /\ applied = <<>>

SourcesNext == ApplySourcesSection

SourcesSpec == SourcesInit /\ [][SourcesNext]_vars

\* ------------------------------------------------------------ scheduler.py
\* CONFIG["schedule"]["run_time"], "08:00", on the day of the model
run_hour == 1
run_minute == 0

\* time.sleep(50)
sleep_seconds == 50

\* the first second of the scheduled minute of a day
WindowStart == (run_hour * MinutesPerHour + run_minute) * MinuteSeconds

\* when the process is started: before the scheduled minute, inside it, after it
StartTimes == {0, WindowStart - 20, WindowStart + 5, WindowStart + MinuteSeconds + 10}

\* how long run_once() takes: a moment, longer than the scheduled minute, up to
\* the scheduled minute of the next day, longer than a day
RunDurations == {1, MinuteSeconds + 1, DaySeconds - MinuteSeconds,
                 DaySeconds + MinuteSeconds + 1}

\* what time.sleep(50) and the turn of the loop take beyond the 50 seconds
SleepOverrun == {0, 1}

\* run_daily that looks at the minute alone
TimeMatches_AnyHour(t) == Minute(t) = run_minute

\* run_daily, lines 54-55
TimeMatches(t) == Hour(t) = run_hour /\ Minute(t) = run_minute

\* run_daily that forgets the date of its last run
RanOn_Never(last, date) == FALSE

\* run_daily, line 56: last_run_date != today, negated
RanOn(last, date) == last = date

\* run_daily, lines 53-57
ShouldRun(t, last) == TimeMatches(t) /\ ~RanOn(last, Date(t))

LogPoll(log, t, invoked) ==
    [log EXCEPT ![Date(t)] =
        [invoked |-> @.invoked + (IF invoked THEN 1 ELSE 0),
         windowPolls |-> IF Hour(t) = run_hour /\ Minute(t) = run_minute /\ @.windowPolls < 2
                         THEN @.windowPolls + 1 ELSE @.windowPolls,
         latePolls |-> IF t % DaySeconds >= WindowStart + MinuteSeconds
                       THEN 1 ELSE @.latePolls]]

\* run_daily, lines 49-57: one poll of the clock
Poll ==
    /\ schedPc = "poll"
    /\ now < Horizon
    /\ today' = Date(now)
    /\ dayLog' = LogPoll(dayLog, now, ShouldRun(now, last_run_date))
    /\ IF ShouldRun(now, last_run_date)
       THEN /\ schedPc' = "run_once"
            /\ invokedAt' = now
       ELSE /\ schedPc' = "sleep"
            /\ UNCHANGED invokedAt
    /\ UNCHANGED <<now, last_run_date>>
    /\ UNCHANGED outsideScheduler

\* run_daily, lines 59-60: run_once() blocks the loop for as long as main.py runs
RunOnce ==
    /\ schedPc = "run_once"
    /\ \E d \in RunDurations : now' = now + d
    /\ last_run_date' = today
    /\ schedPc' = "sleep"
    /\ UNCHANGED <<today, dayLog, invokedAt>>
    /\ UNCHANGED outsideScheduler

\* a loop that sleeps for more than a minute
NextPollTime_Slow(t, over) == t + MinuteSeconds + sleep_seconds + over

\* the clock at the next poll, after time.sleep(50)
NextPollTime(t, over) == t + sleep_seconds + over

\* run_daily, line 63
Sleep ==
    /\ schedPc = "sleep"
    /\ \E over \in SleepOverrun : now' = NextPollTime(now, over)
    /\ schedPc' = "poll"
    /\ UNCHANGED <<today, last_run_date, dayLog, invokedAt>>
    /\ UNCHANGED outsideScheduler

\* run_daily, lines 38-46: the process is started at some time of day 0
SchedulerInit ==
    /\ RunIdle /\ ListingIdle /\ CallIdle
    /\ now \in StartTimes
    /\ today = NoDate
    /\ last_run_date = NoDate
    /\ schedPc = "poll"
    /\ dayLog = [d \in Days |-> NoDayLog]
    /\ invokedAt = NoTime

SchedulerNext == Poll \/ RunOnce \/ Sleep

SchedulerSpec == SchedulerInit /\ [][SchedulerNext]_vars

\* the first second of the scheduled minute of the day after the one of time t
NextWindowStart(t) == (Date(t) + 1) * DaySeconds + WindowStart

\* run_daily, lines 59-60, when main.py is done before the scheduled minute of
\* the day after the poll that started it
RunOnceInTime == RunOnce /\ now' < NextWindowStart(invokedAt)

\* run_daily with every run done in time; the loop never stops by itself: sleep
\* returns, main.py returns, and the next turn is taken
DailyNext == Poll \/ RunOnceInTime \/ Sleep

DailySpec == SchedulerInit /\ [][DailyNext]_vars /\ WF_vars(DailyNext)

\* ------------------------------------------------------------ run()
RunStep(p) ==
    \/ StartRun(p)
    \/ Fetch(p)
    \/ Generate(p)
    \/ CheckLedger(p)
    \/ Login(p)
    \/ Post(p)
    \/ SaveLoad(p)
    \/ SaveWrite(p)
    \/ FetchPage(p)
    \/ WriteSitemap(p)
    \/ SubmitIndexNow(p)
    \/ PingGoogle(p)
    \/ PingBing(p)

\* sequential runs: one process, each run starts after the one before it ended
Next == \E p \in SeqProcs : RunStep(p)

Spec == Init /\ [][Next]_vars

\* interleaved runs: two processes of main.py on the same data/ directory, each
\* step the next step of one of them, through the load-check-publish-save part of
\* run() (lines 59-89); the stages after the ledger write do not touch the ledger.
\* Three runs make room for a run that overlaps two others.
LoadCheckPublishSave(p, most) ==
    \/ StartRunWithin(p, most)
    \/ Fetch(p)
    \/ Generate(p)
    \/ CheckLedger(p)
    \/ Login(p)
    \/ Post(p)
    \/ SaveLoad(p)
    \/ SaveWrite(p)

ConcurrentNext == \E p \in Procs : LoadCheckPublishSave(p, MaxRuns + 1)

ConcurrentSpec == Init /\ [][ConcurrentNext]_vars

\* ------------------------------------------------------------ properties
InTrace(p, stage) == \E i \in 1..Len(trace[p]) : trace[p][i] = stage

IsPrefix(s, t) == Len(s) <= Len(t) /\ s = SubSeq(t, 1, Len(s))

\* run(), lines 63-102: the order in which the stages are called
StageOrder == <<"fetch", "synthesize", "check", "publish", "sitemap", "index">>

\* a creation request is sent in this step by process p
Submits(p) == eff'[p].create > eff[p].create

\* C1: when the slug of the generated post is in the ledger loaded at the start
\* of the run, the run sends no login and no creation request, writes no ledger,
\* regenerates no sitemap and notifies no search engine.
C1_LedgerHitStopsRun ==
    \A p \in Procs :
        (result[p].ok /\ result[p].slug \in published[p]) =>
            /\ eff[p].login = 0
            /\ eff[p].create = 0
            /\ eff[p].ledgerWrite = 0
            /\ ledgerFile = ledger0[p]
            /\ eff[p].sitemapWrite = 0
            /\ eff[p].indexnow = 0 /\ eff[p].google_ping = 0 /\ eff[p].bing_ping = 0
            /\ ~InTrace(p, "publish") /\ ~InTrace(p, "sitemap") /\ ~InTrace(p, "index")

C1_Witness ==
    \E p \in Procs :
        /\ pc[p] = "ended"
        /\ status[p] = "already_published"
        /\ result[p].slug \in published[p]

\* C2 as stated: over sequential runs sharing one ledger file no slug is sent
\* to the creation endpoint more than once, whatever the outcome of each attempt.
C2_NeverSubmittedTwice ==
    [][\A p \in Procs : Submits(p) => result[p].slug \notin submitted]_vars

\* C2 as amended: over sequential runs sharing one ledger file no slug is sent to
\* the creation endpoint once the ledger file has held it.
C2_NotSubmittedOnceRecorded ==
    [][\A p \in Procs : Submits(p) => result[p].slug \notin everInLedger]_vars

C2_Witness ==
    \E p \in Procs :
        /\ runs >= 2
        /\ pc[p] = "ended"
        /\ result[p].ok
        /\ result[p].slug \in submitted \cap everInLedger
        /\ eff[p].create = 0

\* C3: when authentication fails (401, another status, 200 without a token,
\* connection error, timeout) no creation request is sent, the ledger file is
\* unchanged and the run stops without sitemap regeneration or notification.
C3_AuthFailureStopsRun ==
    \A p \in Procs :
        outcome[p].login \notin {"none", "200_token"} =>
            /\ eff[p].create = 0
            /\ ledgerFile = ledger0[p]
            /\ pc[p] = "ended"
            /\ status[p] = "publish_failed"
            /\ ~InTrace(p, "sitemap") /\ ~InTrace(p, "index")
            /\ eff[p].sitemapWrite = 0
            /\ eff[p].indexnow = 0 /\ eff[p].google_ping = 0 /\ eff[p].bing_ping = 0

C3_Witness ==
    \E p \in Procs : outcome[p].login = "401" /\ pc[p] = "ended" /\ eff[p].login = 1

\* C4: whenever the creation call answers HTTP 201, publish_article returns the
\* canonical URL, the backup file of the slug has been written, and when the run
\* has ended the ledger holds the slug.
C4_CreatedMeansRecorded ==
    \A p \in Procs :
        outcome[p].create \in {"201", "201_bad_body"} =>
            /\ publishedUrl[p] = Canonical(result[p].slug)
            /\ backupFiles[result[p].slug] = "complete"
            /\ pc[p] = "ended" =>
                   (ledgerFile.kind = "valid" /\ result[p].slug \in ledgerFile.slugs)

\* C5: run() calls the stages in the order fetch, synthesize, ledger check,
\* publish, sitemap, index notification, and each abort condition (empty article
\* list, no result of the synthesizer, slug in the ledger, no URL from publish)
\* ends the run with no later stage called.
C5_StagesInOrderAbortsStop ==
    \A p \in Procs :
        /\ IsPrefix(trace[p], StageOrder)
        /\ articles[p] = "empty" => (pc[p] = "ended" /\ trace[p] = SubSeq(StageOrder, 1, 1))
        /\ (InTrace(p, "synthesize") /\ ~result[p].ok) =>
               (pc[p] = "ended" /\ trace[p] = SubSeq(StageOrder, 1, 2))
        /\ (InTrace(p, "check") /\ result[p].slug \in published[p]) =>
               (pc[p] = "ended" /\ trace[p] = SubSeq(StageOrder, 1, 3))
        /\ (InTrace(p, "publish") /\ pc[p] = "ended" /\ publishedUrl[p] = NoneUrl) =>
               trace[p] = SubSeq(StageOrder, 1, 4)

C5_Witness ==
    \E p \in Procs :
        /\ pc[p] = "ended"
        /\ articles[p] = "empty"
        /\ trace[p] = <<"fetch">>

\* C6: the sitemap document written after a successful publish has an entry for
\* the slug just published, for every backend listing and every slug.
C6_SitemapHasNewSlug ==
    \A p \in Procs :
        eff[p].sitemapWrite = 1 =>
            \E i \in 1..Len(sitemapFile.entries) :
                sitemapFile.entries[i] = [kind |-> "post", slug |-> result[p].slug]

EntriesOf(kind, slug) ==
    { i \in 1..Len(sitemapFile.entries) :
        sitemapFile.entries[i] = [kind |-> kind, slug |-> slug] }

\* C7: the sitemap written has exactly one home-page entry and exactly one entry
\* per distinct slug among the fetched records and the injected new slug.
C7_SitemapNoDuplicates ==
    \A p \in Procs :
        eff[p].sitemapWrite = 1 =>
            /\ Cardinality(EntriesOf("home", <<>>)) = 1
            /\ \A i \in 1..Len(InjectNewSlug(fetched[p], result[p].slug)) :
                   Cardinality(EntriesOf("post",
                                         InjectNewSlug(fetched[p], result[p].slug)[i])) = 1

\* C8: after a successful publish (the ledger is saved) the run goes on to the
\* sitemap stage and then to the index notification and ends completed, whatever
\* the outcome of the sitemap stage; the ledger stays as saved.
C8_BestEffortStagesNeverStopRun ==
    \A p \in Procs :
        (pc[p] = "ended" /\ eff[p].ledgerWrite = 1) =>
            /\ InTrace(p, "sitemap")
            /\ InTrace(p, "index")
            /\ status[p] = "completed"
            /\ ledgerFile = [kind |-> "valid", slugs |-> saveSlugs[p]]

\* C9: in submit_to_google each of the three notifications is attempted exactly
\* once whatever the outcome of the others, and the result is true exactly when
\* at least one of them succeeded.
C9_EachNotificationAttempted ==
    \A p \in Procs :
        (pc[p] = "ended" /\ InTrace(p, "index")) =>
            /\ eff[p].indexnow = 1
            /\ eff[p].google_ping = 1
            /\ eff[p].bing_ping = 1
            /\ outcome[p].submit = "true" <=> AnySucceeded(notified[p])

\* C10: for every outcome of the creation call other than HTTP 201,
\* publish_article returns no URL, exactly one creation request was sent in the
\* run, no backup file is written, the ledger is unchanged and the run ends as
\* publish failed.
C10_FailedCreateChangesNothing ==
    \A p \in Procs :
        outcome[p].create \notin {"none", "201", "201_bad_body"} =>
            /\ publishedUrl[p] = NoneUrl
            /\ eff[p].create = 1
            /\ eff[p].backupWrite = 0
            /\ backupFiles = backup0[p]
            /\ eff[p].ledgerWrite = 0
            /\ ledgerFile = ledger0[p]
            /\ pc[p] = "ended"
            /\ status[p] = "publish_failed"

C10_Witness ==
    \E p \in Procs :
        /\ outcome[p].create = "409"
        /\ pc[p] = "ended"
        /\ eff[p].create = 1

\* the ways run() returns: to the end, or at one of its four aborts
Classified == {"completed", "no_articles", "generation_failed",
               "already_published", "publish_failed"}

\* C11: every run that has ended ended completed or at one of the classified
\* aborts, whatever the stages answered and whatever the files held (a malformed
\* ledger file, a failing file write): no exception leaves run().
C11_EveryRunClassified ==
    \A p \in Procs : pc[p] = "ended" => status[p] \in Classified

\* C15: when a request of the listing fails (a transport error or a status other
\* than 200) on page k, fetch_all_slugs returns the records of pages 1 to k-1 in
\* order, none lost and none added, and the sitemap document generate_sitemap
\* writes next is built from that list.
C15_PartialListingKept ==
    [][\A p \in Procs :
         (pc[p] = "sitemap_write" /\ outcome[p].listing \in {"non200", "error"}) =>
             /\ fetched[p] = outcome[p].served
             /\ eff'[p].sitemapWrite > eff[p].sitemapWrite =>
                    sitemapFile' = [kind |-> "complete",
                                    entries |-> SitemapEntries(outcome[p].served,
                                                               result[p].slug)]]_vars

C15_Witness ==
    \E p \in Procs :
        /\ pc[p] = "sitemap_write"
        /\ outcome[p].listing = "error"
        /\ page[p] = 2
        /\ Len(fetched[p]) >= 1
        /\ fetched[p] = outcome[p].served

\* C12: run_daily calls run_once() at most once per calendar day: no two calls
\* are made on polls that read the same date, however the polls fall and however
\* long a run takes.
C12_AtMostOncePerDay ==
    \A d \in Days : dayLog[d].invoked <= 1

C12_Witness ==
    \E d \in Days : dayLog[d].invoked = 1 /\ dayLog[d].windowPolls = 2

\* C13: run_daily calls run_once() only on a poll whose hour and minute both
\* equal the configured run time; on a day on which no poll read the scheduled
\* minute there is no call, and no later poll of that day makes one.
C13_OnlyInScheduledMinute ==
    /\ invokedAt # NoTime => (Hour(invokedAt) = run_hour /\ Minute(invokedAt) = run_minute)
    /\ \A d \in Days : dayLog[d].windowPolls = 0 => dayLog[d].invoked = 0

C13_Witness ==
    \E d \in Days :
        /\ Date(now) > d
        /\ dayLog[d].windowPolls = 0
        /\ dayLog[d].latePolls = 1
        /\ dayLog[d].invoked = 0
        /\ d > 0 /\ dayLog[d - 1].invoked = 1

\* C14 as stated: fetch_all_slugs terminates whatever the backend answers.
C14_ListingTerminates == <>(lsPc = "returned")

\* C14 as amended: the page loop of fetch_all_slugs ends at the first response
\* that has a status other than 200, raises an error, is empty, or whose page
\* number is at least the declared totalPages (1 when none is declared); after
\* every other response it goes on with the page number raised by one.
C14_LoopEndsAtLastPage ==
    [][lsPc = "request" =>
         IF \/ lsResp'.kind # "ok"
            \/ lsResp'.posts = <<>>
            \/ \E i \in 1..Len(lsResp'.posts) : lsResp'.posts[i] = NoSlug
            \/ lsPage >= (IF lsResp'.totalPages = TotalPagesAbsent
                          THEN 1 ELSE lsResp'.totalPages)
         THEN lsPc' = "returned"
         ELSE /\ lsPc' = "request"
              /\ lsPage < PageCap => lsPage' = lsPage + 1
              /\ lsPage' >= lsPage]_vars

C14_Witness ==
    /\ lsPc = "returned"
    /\ lsPage = 2
    /\ lsResp.kind = "ok"
    /\ lsResp.posts # <<>>
    /\ lsResp.totalPages = 2

\* the records of a list at the positions of a set, in the order of the list
RECURSIVE AtPositions(_, _)
AtPositions(list, positions) ==
    IF list = <<>> THEN <<>>
    ELSE AtPositions(SubSeq(list, 1, Len(list) - 1), positions)
         \o (IF Len(list) \in positions THEN <<list[Len(list)]>> ELSE <<>>)

\* C16: deduplicate returns the records of its input, in the order of the input,
\* that are the first with their normalized title key: for each key the first
\* record with it and no other.
C16_FirstOfEachKeyKept ==
    applied = <<"deduplicate">> =>
        LET key == [i \in 1..Len(previous) |-> title_key(previous[i].title)]
        IN  value = AtPositions(previous,
                        { i \in 1..Len(previous) : \A j \in 1..(i - 1) : key[j] # key[i] })

C16_Witness ==
    /\ applied = <<"deduplicate">>
    /\ Len(previous) = 3
    /\ Len(value) = 2
    /\ value = <<previous[1], previous[3]>>
    /\ previous[1].title # previous[2].title

\* C17: filter_relevant returns, in the order of the input, exactly the records
\* whose lowercased title and summary together contain a term of the keyword list.
C17_ExactlyRelevantKept ==
    applied = <<"filter_relevant">> =>
        LET text == [i \in 1..Len(previous) |->
                        lower(previous[i].title \o <<" ">> \o previous[i].summary)]
        IN  value = AtPositions(previous,
                        { i \in 1..Len(previous) :
                            \E kw \in keywords : IsSubstring(kw, text[i]) })

C17_Witness ==
    /\ applied = <<"filter_relevant">>
    /\ Len(previous) = 3
    /\ value = <<previous[1], previous[3]>>
    /\ \E kw \in keywords : IsSubstring(kw, previous[1].summary)
    /\ ~(\E kw \in keywords : IsSubstring(kw, lower(previous[1].title)))

\* C20: the list fetch_news returns has at most 20 records, is ordered by
\* published timestamp, newest first and empty timestamps last, and holds the
\* first 20 in that order of the deduplicated and relevance-filtered records.
C20_NewestTwentyReturned ==
    applied = <<"fetch_news">> =>
        LET kept == filter_relevant(deduplicate(previous))
        IN  /\ Len(value) <= BatchMax
            /\ Len(value) = (IF Len(kept) < BatchMax THEN Len(kept) ELSE BatchMax)
            /\ \A i, j \in 1..Len(value) :
                   i < j => /\ ~StrLess(value[i].published, value[j].published)
                            /\ value[i].published = <<>> => value[j].published = <<>>
                            /\ value[i] # value[j]
            /\ Range(value) \subseteq Range(kept)
            /\ \A r \in Range(kept) \ Range(value), v \in Range(value) :
                   ~StrLess(v.published, r.published)

C20_Witness ==
    /\ applied = <<"fetch_news">>
    /\ Len(previous) > BatchMax
    /\ Len(filter_relevant(deduplicate(previous))) > BatchMax
    /\ Len(value) = BatchMax
    /\ value[1] = previous[Len(previous)]
    /\ value[BatchMax].published # <<>>

\* C18: slugify is idempotent: for every title t, slugify(slugify(t)) equals
\* slugify(t), also when the slug is cut at the 80-character cap.
C18_SlugifyIdempotent ==
    applied = <<"slugify", "slugify">> => value = previous

\* C19: the slug of every title has at most 80 characters, holds only letters,
\* digits and hyphens (no whitespace, no underscore, no other punctuation, no
\* two hyphens in a row) and neither begins nor ends with a hyphen.
C19_SlugWellFormed ==
    applied = <<"slugify">> =>
        /\ Len(value) <= SlugMax
        /\ \A i \in 1..Len(value) :
               value[i] \in (Range(Lowercase) \cup Range(Digits) \cup {"-"})
        /\ \A i \in 1..(Len(value) - 1) : ~(value[i] = "-" /\ value[i + 1] = "-")
        /\ value # <<>> => (value[1] # "-" /\ value[Len(value)] # "-")

\* C21: generate_article calls the generative-text service once and returns no
\* result (without raising, without a second call) when the call fails, when the
\* reply is not JSON after the code fences are stripped, or when title, content or
\* excerpt is absent or empty; it returns a post only when all three are there
AllFieldsPresent(raw) ==
    /\ ParsesAsJson(raw)
    /\ \A text \in {raw[1].doc.title, raw[1].doc.content, raw[1].doc.excerpt} :
           text # Absent /\ text # <<>>
C21_OneCallResultOnlyWhenValid ==
    applied # <<>> =>
        /\ Len(applied) = 1
        /\ ~value.raised
        /\ value.result.ok <=> (argument.call = "ok" /\ AllFieldsPresent(StripFences(argument.raw)))

\* C22: on a successful synthesis the Sources section lists every source of the
\* model and every URL of a fetched record, and no URL twice, whatever the list of
\* the model (empty, absent, with repeated URLs) and however many records
NoUrlTwice(urls) == \A i, j \in 1..Len(urls) : urls[i] = urls[j] => i = j
C22_SourcesCompleteNoDuplicates ==
    applied # <<>> =>
        /\ value.present
        /\ (Range(argument.sources) \cup Range(argument.articles)) \ {""}
               \subseteq Range(value.urls)
        /\ NoUrlTwice(value.urls)

\* a successful write of the ledger file by process p in this step
WritesLedger(p) == eff'[p].ledgerWrite > eff[p].ledgerWrite

\* C23: interleaved runs on one ledger file are not synchronized. A run tests a
\* slug against nothing but the set it loaded at its start, and its write leaves
\* in the file what it read before plus its own slug, whatever the file held by
\* then; so two runs can both send the same slug (C23_Witness: raced), and a
\* write can drop a slug the other run has just added (C23_Witness: a slug the
\* file has held is no longer in it).
C23_UnsynchronizedLedger ==
    [][\A p \in Procs :
          /\ Submits(p) => result[p].slug \notin published[p]
          /\ WritesLedger(p) =>
                /\ ledgerFile'.slugs = saveSlugs[p]
                /\ result[p].slug \in ledgerFile'.slugs]_vars

C23_Witness ==
    /\ raced # {}
    /\ ledgerFile.kind = "valid"
    /\ everInLedger \ ledgerFile.slugs # {}
    /\ \A p \in Procs : pc[p] = "sitemap_fetch"

\* C24: inside one process get_jwt_token sends at most one login request that
\* succeeds; once a call has returned a token every later call returns that token
\* and sends no request; a failed login caches nothing, so while no call has
\* returned a token every call sends a login request
C24_OneSuccessfulLogin ==
    /\ Len(SelectSeq(applied, LAMBDA c : c.request /\ c.returned # NoToken)) <= 1
    /\ \A j \in 1..Len(applied) :
          IF \E i \in 1..(j - 1) : applied[i].returned # NoToken
          THEN /\ ~applied[j].request
               /\ \A i \in 1..(j - 1) :
                     applied[i].returned # NoToken => applied[j].returned = applied[i].returned
          ELSE applied[j].request
    /\ (cachedToken[1] # NoToken) <=> (\E i \in 1..Len(applied) : applied[i].returned # NoToken)

C24_Witness ==
    /\ Len(applied) = 3
    /\ applied[1].request /\ applied[1].returned = NoToken
    /\ applied[2].request /\ applied[2].returned # NoToken
    /\ ~applied[3].request /\ applied[3].returned = applied[2].returned

\* get_or_create_indexnow_key returns to submit_indexnow in this step of process p
ReturnsKey(p) == eff'[p].indexnow > eff[p].indexnow

\* C25: once the key file holds a non-empty key, every later call of
\* get_or_create_indexnow_key, in this run or a later one, returns that key and
\* leaves the file as it is; a key is generated only when the file is missing or
\* empty
C25_StoredKeyKept ==
    [][/\ keyFile \in Keys =>
            /\ keyFile' = keyFile
            /\ keysGenerated' = keysGenerated
            /\ \A p \in Procs : ReturnsKey(p) => outcome'[p].key = keyFile
       /\ keysGenerated' # keysGenerated => keyFile \in {"absent", "empty"}]_vars

C25_Witness ==
    \E p \in Procs :
        /\ runs = 2
        /\ pc[p] = "google_ping"
        /\ keysGenerated = 1
        /\ keyFile \in Keys
        /\ outcome[p].key = keyFile

\* the sources requested so far, and the records in the list that came from one
Requested == { applied[i].source : i \in 1..Len(applied) }
CollectedFrom(source) == SelectSeq(value, LAMBDA rec : rec[1] = source)
\* no source is requested twice; a request that raised or got a non-ok status
\* added no record; the records of every other request are in the list
RequestsIndependent ==
    /\ \A i, j \in 1..Len(applied) : applied[i].source = applied[j].source => i = j
    /\ \A i \in 1..Len(applied) :
          /\ applied[i].kind \in {"error", "status_error"} =>
                CollectedFrom(applied[i].source) = <<>>
          /\ Len(CollectedFrom(applied[i].source)) = applied[i].kept

\* C26 as stated: every configured topic and every configured feed is requested
\* exactly once per run whatever the other requests come to; a request that fails
\* adds no record, is not retried, removes no record and skips no later source.
C26_EverySourceRequestedOnce ==
    /\ RequestsIndependent
    /\ (NewsApiReturned /\ RssReturned) => Requested = Range(Topics) \cup Range(Feeds)

\* C26 as amended: every configured feed is requested exactly once per run, and
\* every configured topic exactly once when the NewsAPI key is configured (none
\* is requested with the placeholder key); a request that fails adds no record,
\* is not retried, removes no record and skips no later source.
C26_SourcesRequestedOnceWithKey ==
    /\ RequestsIndependent
    /\ (NewsApiReturned /\ RssReturned) =>
          Requested = (IF KeyConfigured(argument) THEN Range(Topics) ELSE {})
                      \cup Range(Feeds)

C26_Witness ==
    /\ KeyConfigured(argument)
    /\ NewsApiReturned /\ RssReturned
    /\ \E i, j, k \in 1..Len(applied) :
          /\ i < j /\ j < k
          /\ applied[i].kept > 0
          /\ applied[j].kind \in {"error", "status_error"}
          /\ applied[k].kept > 0
          /\ CollectedFrom(applied[i].source) # <<>>

\* C27: over sequential runs the ledger file changes only by gaining the slug of
\* the current run, right after publish_article returned a URL for it (the
\* backend answered 201); it never loses a slug.
C27_LedgerOnlyGains ==
    [][ledgerFile' # ledgerFile =>
          \E p \in Procs :
              /\ publishedUrl[p] # NoneUrl
              /\ outcome[p].create = "201"
              /\ ledgerFile'.kind = "valid"
              /\ ledgerFile'.slugs = ledgerFile.slugs \cup {result[p].slug}]_vars

\* the ways run() returns early
Aborts == {"no_articles", "generation_failed", "already_published", "publish_failed"}

\* C28: a run that ends in an abort (no articles, no result of the synthesizer,
\* slug already in the ledger, no URL from publish) leaves the ledger file, the
\* backup files, the sitemap file and the IndexNow key file as they were before
\* the run.
C28_AbortChangesNoFile ==
    \A p \in Procs :
        status[p] \in Aborts =>
            /\ ledgerFile = ledger0[p]
            /\ backupFiles = backup0[p]
            /\ sitemapFile = sitemap0[p]
            /\ keyFile = key0[p]

C28_Witness ==
    \E p \in Procs :
        /\ status[p] = "publish_failed"
        /\ eff[p].create = 1
        /\ ledgerFile.slugs # {}
        /\ \E s \in Slugs : backupFiles[s] # "absent"
        /\ sitemapFile # SitemapAbsent
        /\ keyFile \in Keys

\* a loop started at time t is running through the scheduled minute of day d
RunningThrough(t, d) == t < d * DaySeconds + WindowStart + MinuteSeconds

\* C29: in run_daily, with a poll every 50 seconds and every run done before the
\* scheduled minute of the following day, a poll falls inside the scheduled
\* minute of every calendar day the loop runs through, and main.py is eventually
\* invoked on each of these days, exactly once
C29_InvokedEveryDay ==
    /\ [](\A d \in Days : dayLog[d].invoked <= 1)
    /\ \A t \in StartTimes :
          now = t =>
              <>(\A d \in Days :
                    RunningThrough(t, d) =>
                        dayLog[d].invoked = 1 /\ dayLog[d].windowPolls >= 1)

C29_Witness ==
    /\ \A d \in Days : dayLog[d].invoked = 1 /\ dayLog[d].windowPolls >= 1
    /\ now >= Horizon

\* C30: every post generate_article returns has a non-empty slug, whatever
\* non-empty title the model returned (a title of punctuation only included), so
\* no post is sent with an empty path segment and the ledger never holds the
\* empty string
C30_SlugNeverEmpty ==
    /\ \A p \in Procs : result[p].ok => result[p].slug # <<>>
    /\ <<>> \notin submitted
    /\ <<>> \notin ledgerFile.slugs
====
